---- MODULE Spec2Model ----
(***************************************************************************)
(* The report scripts of the bufferbloat experiment: plot_tcpprobe.py,     *)
(* plot_ping.py and plot_queue.py, with the helpers of helper.py they use, *)
(* and the functions of helper.py no script calls, each called on its own. *)
(*                                                                         *)
(* Numbers.  Timestamps and round-trip times are floats in the scripts and *)
(* naturals here; only their order, equality and differences are used.     *)
(* A congestion window in KB is cwnd_raw * 1480 / 1024.0: every such value *)
(* is a multiple of 1/1024, and the model keeps the numerator (the value   *)
(* times KB), so sums and differences of values are exact, as they are in  *)
(* double precision for these dyadic fractions.                            *)
(*                                                                         *)
(* History.  `fileLog' records what each supplied file turned out to be    *)
(* and `input' the lines read: all of them in plot_ping and plot_queue,    *)
(* those that stored something in plot_tcpprobe.  There every entry of     *)
(* times/cwnds carries the place of the line it came from (from =          *)
(* [file, ln], ln the place of the line in `input'), and an event the      *)
(* origin of its timestamp (tfrom) and of its value (vfrom).               *)
(* No action reads the history to decide anything.                         *)
(***************************************************************************)
EXTENDS Integers, Sequences, FiniteSets, TLC

\* Bounds of the exploration.
MaxFiles == 2
MaxLines == 2
MaxPingLines == 3
MaxTs == 2
MaxEvents == 3

MaxCpuLines == 3

MaxCores == 2

MaxN == 21

MaxList == 3

\* Program constants.
MSS == 1480
KB == 1024
DefaultPort == 5001
OtherPort == DefaultPort + 1

---------------------------------------------------------------------------
\* Sequence helpers.

MinNat(a, b) == IF a <= b THEN a ELSE b

Last(s) == s[Len(s)]

Front(s) == SubSeq(s, 1, Len(s) - 1)

RECURSIVE MinOfSeq(_)
MinOfSeq(s) ==
    IF Len(s) = 1 THEN s[1] ELSE MinNat(s[1], MinOfSeq(Tail(s)))

RECURSIVE SumSeq(_)
SumSeq(s) == IF s = <<>> THEN 0 ELSE s[1] + SumSeq(Tail(s))

\* defaultdict(list): a function whose domain is the set of keys touched.
EmptyDict == <<>>

DictAppend(d, k, x) ==
    IF k \in DOMAIN d THEN [d EXCEPT ![k] = Append(@, x)] ELSE d @@ (k :> <<x>>)

\* sorted(d): the keys in ascending order.
RECURSIVE SortedKeys(_)
SortedKeys(S) ==
    IF S = {} THEN <<>>
    ELSE LET m == CHOOSE x \in S : \A y \in S : x <= y
         IN  <<m>> \o SortedKeys(S \ {m})

---------------------------------------------------------------------------
\* tcp_probe lines.  A line is what the parser can tell apart in its text:
\* whether the marker is there, how many whitespace tokens precede it,
\* whether the last of them is a float, the colon-separated components of
\* src= and dest= (each a decimal integer or not), and the snd_cwnd= token.

NonNum == [num |-> FALSE, val |-> 0]

Num(n) == [num |-> TRUE, val |-> n]

Addr(parts) == [present |-> TRUE, parts |-> parts]

NoField == [present |-> FALSE, parts |-> <<>>]

CwndTok(n) == [present |-> TRUE, num |-> TRUE, val |-> n]

CwndBad == [present |-> TRUE, num |-> FALSE, val |-> 0]

CwndMissing == [present |-> FALSE, num |-> FALSE, val |-> 0]

ProbeLine(ts, src, dest, cw) ==
    [marker |-> TRUE, hdr |-> 4, tsOk |-> TRUE, ts |-> ts,
     src |-> src, dest |-> dest, cwnd |-> cw]

HostPort(p) == Addr(<<NonNum, Num(p)>>)

\* Lines of the usual shape, host:port on both sides.
PlainLines ==
    { ProbeLine(ts, HostPort(sp), HostPort(DefaultPort), cw) :
        ts \in 1..MaxTs, sp \in {DefaultPort, OtherPort},
        cw \in {CwndTok(1), CwndTok(2)} }

\* Lines that differ from the usual shape in one respect.
OddLines ==
    LET base == ProbeLine(1, HostPort(OtherPort), HostPort(DefaultPort), CwndTok(1))
    IN  { [base EXCEPT !.marker = FALSE],
          [base EXCEPT !.hdr = 3],
          [base EXCEPT !.tsOk = FALSE],
          [base EXCEPT !.src = NoField],
          [base EXCEPT !.src = Addr(<<NonNum>>)],
          [base EXCEPT !.src = Addr(<<NonNum, NonNum>>)],
          [base EXCEPT !.dest = NoField],
          [base EXCEPT !.dest = HostPort(OtherPort)],
          [base EXCEPT !.cwnd = CwndBad],
          [base EXCEPT !.cwnd = CwndMissing],
          \* [2001:db8::1]:5002 and [2001:470::1]:5002
          [base EXCEPT !.src = Addr(<<NonNum, NonNum, NonNum, NonNum, Num(OtherPort)>>)],
          [base EXCEPT !.src = Addr(<<NonNum, Num(470), NonNum, NonNum, Num(OtherPort)>>)] }

ProbeLines == PlainLines \cup OddLines

\* str.split(":") of kv.get(name, ""): the empty string splits into [""].
SplitColon(field) == IF field.present THEN field.parts ELSE <<NonNum>>

\* One iteration of the loop of parse_tcp_probe_file: what the line makes the
\* parser do.  kind "skip": nothing stored; "time": the timestamp is stored
\* and the conversion of snd_cwnd then fails; "both": timestamp and value.
ParseTcpProbeLine(line, port, use_sport) ==
    LET skip == [kind |-> "skip", sport |-> 0, dport |-> 0, timestamp |-> 0, cwnd_kb |-> 0]
        src_parts == SplitColon(line.src)
        dst_parts == SplitColon(line.dest)
        sport == src_parts[2].val
        dport == dst_parts[2].val
        target_port == IF use_sport THEN sport ELSE dport
        cwnd_raw == IF line.cwnd.present THEN line.cwnd.val ELSE 0
    IN  IF ~line.marker THEN skip
        ELSE IF line.hdr < 4 THEN skip
        ELSE IF ~line.tsOk THEN skip
        ELSE IF Len(src_parts) < 2 \/ Len(dst_parts) < 2 THEN skip
        ELSE IF ~src_parts[2].num \/ ~dst_parts[2].num THEN skip
        ELSE IF target_port # port THEN skip
        ELSE IF line.cwnd.present /\ ~line.cwnd.num
             THEN [kind |-> "time", sport |-> sport, dport |-> dport,
                   timestamp |-> line.ts, cwnd_kb |-> 0]
             ELSE [kind |-> "both", sport |-> sport, dport |-> dport,
                   timestamp |-> line.ts, cwnd_kb |-> cwnd_raw * MSS]

---------------------------------------------------------------------------
\* plot_cwnd_timeseries.

\* Lines 137-146 for the sports in `keys' (sorted(cwnd_dict)), starting from
\* the accumulators acc = [all_timestamps, collected_data].
RECURSIVE CollectPorts(_, _, _, _)
CollectPorts(keys, time_dict, cwnd_dict, acc) ==
    IF keys = <<>> THEN acc
    ELSE LET sport == keys[1]
             timestamps == time_dict[sport]
             cwnd_values == cwnd_dict[sport]
             next == IF timestamps = <<>> THEN acc
                     ELSE [all_timestamps |-> acc.all_timestamps \o timestamps,
                           collected_data |-> Append(acc.collected_data,
                               [sport |-> sport, timestamps |-> timestamps,
                                cwnd_values |-> cwnd_values])]
         IN  CollectPorts(Tail(keys), time_dict, cwnd_dict, next)

\* zip(rel_timestamps, cwnd_values) made into TCPEvents: as long as the
\* shorter of the two lists.
ZipEvents(sport, timestamps, cwnd_values, start) ==
    [i \in 1..MinNat(Len(timestamps), Len(cwnd_values)) |->
        [timestamp |-> timestamps[i].t - start, sport |-> sport,
         cwnd |-> cwnd_values[i].v,
         tfrom |-> timestamps[i].from, vfrom |-> cwnd_values[i].from]]

\* Lines 155-161 with the events of a later group put in front.
RECURSIVE BuildEventsPrepend(_, _)
BuildEventsPrepend(collected, start) ==
    IF collected = <<>> THEN <<>>
    ELSE BuildEventsPrepend(Tail(collected), start)
         \o ZipEvents(collected[1].sport, collected[1].timestamps,
                      collected[1].cwnd_values, start)

\* Lines 155-161: all_events.extend(events), group after group.
RECURSIVE BuildEvents(_, _)
BuildEvents(collected, start) ==
    IF collected = <<>> THEN <<>>
    ELSE ZipEvents(collected[1].sport, collected[1].timestamps,
                   collected[1].cwnd_values, start)
         \o BuildEvents(Tail(collected), start)

\* A sort that puts an element before the elements of equal key.
InsertUnstable(sorted, e) ==
    LET k == Cardinality({i \in 1..Len(sorted) : sorted[i].timestamp < e.timestamp})
    IN  SubSeq(sorted, 1, k) \o <<e>> \o SubSeq(sorted, k + 1, Len(sorted))

\* list.sort(key=lambda e: e.timestamp) is stable: an element goes after
\* every element whose key is not greater.
InsertByTimestamp(sorted, e) ==
    LET k == Cardinality({i \in 1..Len(sorted) : sorted[i].timestamp <= e.timestamp})
    IN  SubSeq(sorted, 1, k) \o <<e>> \o SubSeq(sorted, k + 1, Len(sorted))

RECURSIVE SortByTimestamp(_)
SortByTimestamp(events) ==
    IF events = <<>> THEN <<>>
    ELSE InsertByTimestamp(SortByTimestamp(Front(events)), Last(events))

Ts(entries) == [i \in 1..Len(entries) |-> entries[i].t]

\* Lines 152-168 without the guard of lines 149-150: min() of an empty list
\* raises ValueError.
AlignNoGuard(timestamps, collected) ==
    IF timestamps = <<>>
    THEN [raised |-> TRUE, start |-> 0, events |-> <<>>]
    ELSE [raised |-> FALSE, start |-> MinOfSeq(Ts(timestamps)),
          events |-> SortByTimestamp(BuildEvents(collected, MinOfSeq(Ts(timestamps))))]

\* Lines 148-168.  raised: an exception left the function.
Align(timestamps, collected) ==
    IF timestamps = <<>>
    THEN [raised |-> FALSE, start |-> 0, events |-> <<>>]
    ELSE LET global_start_time == MinOfSeq(Ts(timestamps))
         IN  [raised |-> FALSE, start |-> global_start_time,
              events |-> SortByTimestamp(BuildEvents(collected, global_start_time))]

---------------------------------------------------------------------------
\* calculate_total_cwnd.

EmptyTotals == [timestamps |-> <<>>, total_values |-> <<>>]

\* The loop body without the subtraction of lines 191-192.
TotalStepNoSubtract(st, event) ==
    LET total == st.total_cwnd + event.cwnd
    IN  [total_cwnd |-> total,
         latest_cwnd_by_port |->
            [p \in DOMAIN st.latest_cwnd_by_port \cup {event.sport} |->
                IF p = event.sport THEN event.cwnd ELSE st.latest_cwnd_by_port[p]],
         timestamps |-> Append(st.timestamps, event.timestamp),
         total_values |-> Append(st.total_values, total)]

\* The loop body, lines 189-200, on the state st =
\* [total_cwnd, latest_cwnd_by_port, timestamps, total_values].
TotalStep(st, event) ==
    LET old == IF event.sport \in DOMAIN st.latest_cwnd_by_port
               THEN st.latest_cwnd_by_port[event.sport] ELSE 0
        total == st.total_cwnd - old + event.cwnd
    IN  [total_cwnd |-> total,
         latest_cwnd_by_port |->
            [p \in DOMAIN st.latest_cwnd_by_port \cup {event.sport} |->
                IF p = event.sport THEN event.cwnd ELSE st.latest_cwnd_by_port[p]],
         timestamps |-> Append(st.timestamps, event.timestamp),
         total_values |-> Append(st.total_values, total)]

RECURSIVE TotalLoop(_, _)
TotalLoop(st, events) ==
    IF events = <<>> THEN st ELSE TotalLoop(TotalStep(st, events[1]), Tail(events))

CalculateTotalCwnd(events) ==
    IF events = <<>> THEN EmptyTotals
    ELSE LET st == TotalLoop([total_cwnd |-> 0, latest_cwnd_by_port |-> EmptyDict,
                              timestamps |-> <<>>, total_values |-> <<>>], events)
         IN  [timestamps |-> st.timestamps, total_values |-> st.total_values]

---------------------------------------------------------------------------
\* parse_ping.  A line is whether it contains "bytes from" and its
\* whitespace tokens; of a token, whether it starts with "time=", whether the
\* text after the "=" converts with float(), and the value it converts to.

Word == [time |-> FALSE, ok |-> FALSE, rtt |-> 0]

TimeTok(r) == [time |-> TRUE, ok |-> TRUE, rtt |-> r]

TimeBad == [time |-> TRUE, ok |-> FALSE, rtt |-> 0]

PingLines ==
    { [bytesFrom |-> FALSE, tokens |-> <<Word, Word>>],
      [bytesFrom |-> FALSE, tokens |-> <<Word, TimeTok(1)>>],
      [bytesFrom |-> TRUE, tokens |-> <<Word, Word>>],
      [bytesFrom |-> TRUE, tokens |-> <<Word, TimeBad, Word>>],
      [bytesFrom |-> TRUE, tokens |-> <<TimeBad, TimeTok(1)>>],
      [bytesFrom |-> TRUE, tokens |-> <<Word, TimeTok(1), Word>>],
      [bytesFrom |-> TRUE, tokens |-> <<Word, TimeTok(2), TimeBad>>] }

\* The first token that starts with "time=" decides (the break of line 37);
\* 0 when there is none.
FirstTime(tokens) ==
    LET S == {i \in 1..Len(tokens) : tokens[i].time}
    IN  IF S = {} THEN 0 ELSE CHOOSE i \in S : \A j \in S : i <= j

\* An iteration that counts the line before the conversion is known to succeed.
PingStepAlwaysCount(st, line) ==
    LET k == FirstTime(line.tokens)
    IN  IF ~line.bytesFrom \/ k = 0 THEN st
        ELSE IF line.tokens[k].ok
             THEN [results |-> Append(st.results, <<st.seq, line.tokens[k].rtt>>),
                   seq |-> st.seq + 1]
             ELSE [results |-> st.results, seq |-> st.seq + 1]

\* One iteration of the loop of parse_ping on st = [results, seq].
PingStep(st, line) ==
    LET k == FirstTime(line.tokens)
    IN  IF ~line.bytesFrom THEN st
        ELSE IF k = 0 THEN st
        ELSE IF line.tokens[k].ok
             THEN [results |-> Append(st.results, <<st.seq, line.tokens[k].rtt>>),
                   seq |-> st.seq + 1]
             ELSE st

---------------------------------------------------------------------------
\* read_list and the conversions of plot_queue.  A line is its characters,
\* without the newline; the alphabet is that of QueueLines.

Digits == {"0", "1", "2"}

RECURSIVE StripLeft(_)
StripLeft(s) == IF s # <<>> /\ s[1] = " " THEN StripLeft(Tail(s)) ELSE s

RECURSIVE StripRight(_)
StripRight(s) == IF s # <<>> /\ Last(s) = " " THEN StripRight(Front(s)) ELSE s

Strip(s) == StripRight(StripLeft(s))

RECURSIVE Split(_, _)
Split(s, delim) ==
    LET S == {i \in 1..Len(s) : s[i] = delim}
    IN  IF S = {} THEN <<s>>
        ELSE LET k == CHOOSE i \in S : \A j \in S : i <= j
             IN  <<SubSeq(s, 1, k - 1)>> \o Split(SubSeq(s, k + 1, Len(s)), delim)

\* Line 27 with only the empty token replaced.
CleanTokenEmptyOnly(tok) ==
    IF Strip(tok) = <<>> THEN <<"0">> ELSE tok

CleanToken(tok) ==
    IF Strip(tok) \in {<<>>, <<"m", "s">>, <<"s">>} THEN <<"0">> ELSE tok

\* The row read_list makes of one line.
ReadListLine(line, delim) ==
    LET tokens == Split(Strip(line), delim)
    IN  [i \in 1..Len(tokens) |-> CleanToken(tokens[i])]

\* Whether float(tok) succeeds, for tokens over the alphabet: digits with at
\* most one point and at least one digit, blanks around them ignored.
IsFloat(tok) ==
    LET t == Strip(tok)
    IN  /\ t # <<>>
        /\ \A i \in 1..Len(t) : t[i] \in Digits \cup {"."}
        /\ Cardinality({i \in 1..Len(t) : t[i] = "."}) <= 1
        /\ \E i \in 1..Len(t) : t[i] \in Digits

QueueLines ==
    { <<"1", ",", "2">>,
      <<"2", ".", "0", ",", "1">>,
      <<" ", "1", " ", ",", " ", "2">>,
      <<"1", ".", "0", ",", ",", "m", "s">>,
      <<"1", ",", "s">>,
      <<"x", ",", "1">>,
      <<"1">>,
      <<>> }

\* Lines 82-86 of plot_queue on the rows of one file: "ok", or the exception
\* that ends the run.
QueueConvert(rows) ==
    IF \E i \in 1..Len(rows) : ~IsFloat(rows[i][1]) THEN "ValueError"
    ELSE IF \E i \in 1..Len(rows) : Len(rows[i]) < 2 THEN "IndexError"
    ELSE IF \E i \in 1..Len(rows) : ~IsFloat(rows[i][2]) THEN "ValueError"
    ELSE "ok"

---------------------------------------------------------------------------
\* helper.py: parse_cpu_usage and grouper.

\* A line of the CPU file: whether it holds a colon, and what follows the
\* first colon split at the commas, each piece a number (the text before
\* its first % converts) or not.  A percentage is a float in the script and
\* a natural here: sums of them are exact.
CpuLine(colon, usages) == [none |-> FALSE, colon |-> colon, usages |-> usages]

\* The fillvalue of grouper.
None == [none |-> TRUE, colon |-> FALSE, usages |-> <<>>]

CpuFull(k) == CpuLine(TRUE, [i \in 1..8 |-> Num(k + i)])

CpuLines ==
    { CpuFull(0), CpuFull(10),
      CpuLine(FALSE, <<>>),
      CpuLine(TRUE, [i \in 1..8 |-> IF i = 2 THEN NonNum ELSE Num(20 + i)]),
      CpuLine(TRUE, [i \in 1..3 |-> Num(30 + i)]),
      CpuLine(TRUE, [i \in 1..9 |-> IF i = 9 THEN NonNum ELSE Num(40 + i)]),
      CpuLine(TRUE, [i \in 1..9 |-> Num(50 + i)]) }

\* grouper(n, iterable): the g-th tuple of zip_longest over n references to
\* one iterator, filled with None.
Grouper(n, iterable, g) ==
    [j \in 1..n |-> IF (g - 1) * n + j <= Len(iterable)
                    THEN iterable[(g - 1) * n + j] ELSE None]

\* Whether zip_longest has a g-th tuple: the iterator is not yet exhausted.
HasGroup(n, iterable, g) == (g - 1) * n < Len(iterable)

\* Lines 152-157 for the pieces of one line from the i-th on.  st holds the
\* list totals and whether totals[i] += ... has raised IndexError.
RECURSIVE AddUsages(_, _, _)
AddUsages(st, usages, i) ==
    IF st.raised \/ i > Len(usages) THEN st
    ELSE IF ~usages[i].num THEN AddUsages(st, usages, i + 1)
    ELSE IF i > Len(st.totals) THEN [st EXCEPT !.raised = TRUE]
    ELSE AddUsages([st EXCEPT !.totals[i] = @ + usages[i].val], usages, i + 1)

\* Lines 145-157 for the lines of the group from the j-th on.
RECURSIVE AddGroup(_, _, _)
AddGroup(st, group, j) ==
    IF st.raised \/ j > Len(group) THEN st
    ELSE IF group[j].none \/ ~group[j].colon THEN AddGroup(st, group, j + 1)
    ELSE AddGroup(AddUsages(st, group[j].usages, 1), group, j + 1)

\* t / nprocessors, kept as the fraction.
Avg(t, n) == [num |-> t, den |-> n]

\* Lines 144-161 without the slices of line 161: all 8 averages.
CpuSampleAll(group, nprocessors) ==
    LET st == AddGroup([raised |-> FALSE, totals |-> [i \in 1..8 |-> 0]], group, 1)
    IN  [raised |-> st.raised,
         sample |-> [i \in 1..8 |-> Avg(st.totals[i], nprocessors)]]

\* Lines 144-161 for one group: the 7-tuple appended to ret, unless an
\* IndexError left the function.
CpuSample(group, nprocessors) ==
    LET st == AddGroup([raised |-> FALSE, totals |-> [i \in 1..8 |-> 0]], group, 1)
        averages == [i \in 1..8 |-> Avg(st.totals[i], nprocessors)]
    IN  [raised |-> st.raised,
         sample |-> SubSeq(averages, 1, 3) \o SubSeq(averages, 5, 8)]

---------------------------------------------------------------------------
\* helper.py: the statistics.

\* sorted(lst), ascending.
InsertAsc(sorted_lst, x) ==
    LET k == Cardinality({i \in 1..Len(sorted_lst) : sorted_lst[i] <= x})
    IN  SubSeq(sorted_lst, 1, k) \o <<x>> \o SubSeq(sorted_lst, k + 1, Len(sorted_lst))

RECURSIVE Sorted(_)
Sorted(lst) ==
    IF lst = <<>> THEN <<>> ELSE InsertAsc(Sorted(Front(lst)), Last(lst))

\* sorted_lst[idx] of Python, idx counted from 0: IndexError when idx is
\* not below the length.
ItemAt(sorted_lst, idx) ==
    IF idx + 1 \in 1..Len(sorted_lst)
    THEN [kind |-> "value", value |-> sorted_lst[idx + 1]]
    ELSE [kind |-> "IndexError", value |-> 0]

\* Lines 169-173 with the index as the rank rounded up.
pc95Ceil(lst) ==
    IF lst = <<>> THEN [kind |-> "None", value |-> 0]
    ELSE ItemAt(Sorted(lst), (95 * Len(lst) + 99) \div 100)

\* pc95, lines 165-173.  int(0.95 * n) is the double product truncated; it
\* equals (95 * n) \div 100 for every length up to 2 * 10^6.
pc95(lst) ==
    IF lst = <<>> THEN [kind |-> "None", value |-> 0]
    ELSE LET sorted_lst == Sorted(lst)
             idx == (95 * Len(sorted_lst)) \div 100
         IN  ItemAt(sorted_lst, idx)

\* pc99, lines 176-184.
pc99(lst) ==
    IF lst = <<>> THEN [kind |-> "None", value |-> 0]
    ELSE LET sorted_lst == Sorted(lst)
             idx == (99 * Len(sorted_lst)) \div 100
         IN  ItemAt(sorted_lst, idx)

\* avg, lines 84-89: sum(nums) / len(nums) kept as the fraction; 0.0 on [].
avg(lst) ==
    IF lst = <<>> THEN [num |-> 0, den |-> 1]
    ELSE [num |-> SumSeq(lst), den |-> Len(lst)]

\* stdev, lines 92-101: the square root of the variance, kept as the
\* variance under the root.  With mean = S / n the variance
\* sum((x - mean) ** 2) / n is sum((n * x - S) ** 2) / n ** 3.
stdev(lst) ==
    IF lst = <<>> THEN [num |-> 0, den |-> 1]
    ELSE LET n == Len(lst)
             S == avg(lst).num
         IN  [num |-> SumSeq([i \in 1..n |-> (n * lst[i] - S) * (n * lst[i] - S)]),
              den |-> n * n * n]

\* coeff_variation, lines 187-193: a float division by a zero mean raises
\* ZeroDivisionError.  The value is sqrt(variance) / mean.
coeff_variation(lst) ==
    IF lst = <<>> THEN [kind |-> "value", variance |-> stdev(lst), mean |-> avg(lst), zero |-> TRUE]
    ELSE IF avg(lst).num = 0
    THEN [kind |-> "ZeroDivisionError", variance |-> stdev(lst), mean |-> avg(lst), zero |-> FALSE]
    ELSE [kind |-> "value", variance |-> stdev(lst), mean |-> avg(lst), zero |-> FALSE]

---------------------------------------------------------------------------
\* The runs of the three scripts.

VARIABLES
    prog,            \* which script runs
    use_sport,       \* args.sport of plot_tcpprobe
    nfiles,          \* len(args.files)
    pc,              \* "files", "reading", "main", "done"
    fileLog,         \* history: per file opened so far, [status, nrec]
    nread,           \* the number of lines read so far in the run
    input,           \* history: the lines read, [file, line]
    times, cwnds,    \* parse_tcp_probe_file: the two defaultdicts
    all_timestamps, collected_data,   \* plot_cwnd_timeseries, first pass
    global_start, all_events,         \* plot_cwnd_timeseries, second pass
    totals,          \* what calculate_total_cwnd returned to main
    results, seq,    \* parse_ping
    data,            \* read_list: the rows of the file being read
    plotted,         \* the files whose series went to ax.plot (ping, queue)
    stderr,          \* what was written to the error stream
    saved,           \* plt.savefig / plt.show was reached
    exitCode         \* the exit status, once pc = "done"

\* A call of a function of helper.py on its own.
VARIABLES
    call,            \* the function called, "none" while a script runs
    lst,             \* the argument of pc95, pc99, coeff_variation
    lines,           \* parse_cpu_usage: f.readlines()
    nprocessors,     \* parse_cpu_usage: the block size
    ret,             \* parse_cpu_usage: the samples so far
    returned         \* how the call ended: [kind |-> "running"] until then

scriptVars == <<prog, use_sport, nfiles, pc, fileLog, nread, input, times, cwnds,
                all_timestamps, collected_data, global_start, all_events, totals,
                results, seq, data, plotted, stderr, saved, exitCode>>

helperVars == <<call, lst, lines, nprocessors, ret, returned>>

vars == <<scriptVars, helperVars>>

Running == [kind |-> "running"]

\* No function of helper.py is called on its own.
NoCall ==
    /\ call = "none"
    /\ lst = <<>>
    /\ lines = <<>>
    /\ nprocessors = 1
    /\ ret = <<>>
    /\ returned = Running

probeVars == <<times, cwnds, all_timestamps, collected_data, global_start,
               all_events, totals>>

pingVars == <<results, seq>>

\* No line: before the first line of a file and after its last.
NoLine == <<>>

Programs == {"tcpprobe", "ping", "queue"}

FileStatus == {"ok", "missing", "noperm"}

Init ==
    /\ prog \in Programs
    /\ use_sport \in (IF prog = "tcpprobe" THEN BOOLEAN ELSE {FALSE})
    /\ nfiles \in 1..MaxFiles
    /\ pc = "files"
    /\ fileLog = <<>>
    /\ nread = 0
    /\ input = <<>>
    /\ times = EmptyDict
    /\ cwnds = EmptyDict
    /\ all_timestamps = <<>>
    /\ collected_data = <<>>
    /\ global_start = 0
    /\ all_events = <<>>
    /\ totals = EmptyTotals
    /\ results = <<>>
    /\ seq = 0
    /\ data = <<>>
    /\ plotted = <<>>
    /\ stderr = <<>>
    /\ saved = FALSE
    /\ exitCode = 0
    /\ NoCall

CurFile == Len(fileLog) + 1

\* An exception nobody catches: the traceback goes to stderr, exit status 1.
Uncaught(what) ==
    /\ stderr' = Append(stderr, [msg |-> what, file |-> CurFile])
    /\ exitCode' = 1
    /\ pc' = "done"

\* ---- plot_tcpprobe ----

\* The opening of a file without the handlers of lines 103-106.
ProbeOpenUncaught(status) ==
    /\ UNCHANGED helperVars
    /\ pc = "files" /\ prog = "tcpprobe" /\ Len(fileLog) < nfiles
    /\ IF status = "ok"
       THEN /\ pc' = "reading"
            /\ UNCHANGED <<fileLog, stderr, exitCode>>
       ELSE /\ fileLog' = Append(fileLog, [status |-> status, nrec |-> 0])
            /\ Uncaught("Traceback")
    /\ times' = EmptyDict
    /\ cwnds' = EmptyDict
    /\ UNCHANGED <<prog, use_sport, nfiles, nread, input, all_timestamps,
                   collected_data, global_start, all_events, totals, results, seq,
                   data, plotted, saved>>

\* plot_cwnd_timeseries asks parse_tcp_probe_file for the next file.  A file
\* that is not there or may not be read: the handlers of lines 103-106 print,
\* the empty dicts are returned and the loop of lines 137-146 has nothing to do.
ProbeOpen(status) ==
    /\ UNCHANGED helperVars
    /\ pc = "files" /\ prog = "tcpprobe" /\ Len(fileLog) < nfiles
    /\ IF status = "ok"
       THEN /\ pc' = "reading"
            /\ UNCHANGED <<fileLog, stderr>>
       ELSE /\ pc' = "files"
            /\ stderr' = Append(stderr,
                   [msg |-> IF status = "missing" THEN "not found" ELSE "no permission",
                    file |-> CurFile])
            /\ fileLog' = Append(fileLog, [status |-> status, nrec |-> 0])
    /\ times' = EmptyDict
    /\ cwnds' = EmptyDict
    /\ UNCHANGED <<prog, use_sport, nfiles, nread, input, all_timestamps,
                   collected_data, global_start, all_events, totals, results, seq,
                   data, plotted, saved, exitCode>>

\* One line of the file, lines 55-102.
ProbeReadLine(line) ==
    /\ UNCHANGED helperVars
    /\ pc = "reading" /\ prog = "tcpprobe" /\ nread < MaxLines
    /\ LET r == ParseTcpProbeLine(line, DefaultPort, use_sport)
           from == [file |-> CurFile, ln |-> Len(input) + 1]
       IN  /\ times' = IF r.kind = "skip" THEN times
                       ELSE DictAppend(times, r.sport, [t |-> r.timestamp, from |-> from])
           /\ cwnds' = IF r.kind = "both"
                       THEN DictAppend(cwnds, r.sport, [v |-> r.cwnd_kb, from |-> from])
                       ELSE cwnds
           /\ input' = IF r.kind = "skip" THEN input
                       ELSE Append(input, [file |-> CurFile, line |-> line])
    /\ nread' = nread + 1
    /\ UNCHANGED <<prog, use_sport, nfiles, pc, fileLog, all_timestamps,
                   collected_data, global_start, all_events, totals, results, seq,
                   data, plotted, stderr, saved, exitCode>>

\* End of the file: the dicts are returned and lines 137-146 collect them.
ProbeEndFile ==
    /\ UNCHANGED helperVars
    /\ pc = "reading" /\ prog = "tcpprobe"
    /\ LET acc == CollectPorts(SortedKeys(DOMAIN cwnds), times, cwnds,
                      [all_timestamps |-> all_timestamps,
                       collected_data |-> collected_data])
       IN  /\ all_timestamps' = acc.all_timestamps
           /\ collected_data' = acc.collected_data
    /\ fileLog' = Append(fileLog,
           [status |-> "ok",
            nrec |-> SumSeq([i \in 1..Len(SortedKeys(DOMAIN cwnds)) |->
                               Len(cwnds[SortedKeys(DOMAIN cwnds)[i]])])])
    /\ pc' = "files"
    /\ UNCHANGED <<prog, use_sport, nfiles, nread, input, times, cwnds, global_start,
                   all_events, totals, results, seq, data, plotted, stderr, saved,
                   exitCode>>

\* After the last file: lines 148-168.
ProbeAlign ==
    /\ UNCHANGED helperVars
    /\ pc = "files" /\ prog = "tcpprobe" /\ Len(fileLog) = nfiles
    /\ LET r == Align(all_timestamps, collected_data)
       IN  IF r.raised
           THEN /\ Uncaught("Traceback")
                /\ UNCHANGED <<global_start, all_events>>
           ELSE /\ global_start' = r.start
                /\ all_events' = r.events
                /\ pc' = "main"
                /\ UNCHANGED <<stderr, exitCode>>
    /\ UNCHANGED <<prog, use_sport, nfiles, fileLog, nread, input, times,
                   cwnds, all_timestamps, collected_data, totals, results, seq, data,
                   plotted, saved>>

\* main, lines 278-305: the totals, then savefig or show, and main returns
\* with exit status 0.
ProbeMain ==
    /\ UNCHANGED helperVars
    /\ pc = "main" /\ prog = "tcpprobe"
    /\ IF all_events = <<>>
       THEN /\ stderr' = Append(stderr, [msg |-> "no events", file |-> 0])
            /\ UNCHANGED totals
       ELSE /\ totals' = CalculateTotalCwnd(all_events)
            /\ UNCHANGED stderr
    /\ saved' = TRUE
    /\ exitCode' = 0
    /\ pc' = "done"
    /\ UNCHANGED <<prog, use_sport, nfiles, fileLog, nread, input, times,
                   cwnds, all_timestamps, collected_data, global_start, all_events,
                   results, seq, data, plotted>>

\* ---- plot_ping ----

\* parse_ping opens the file outside any try.
PingOpen(status) ==
    /\ UNCHANGED helperVars
    /\ pc = "files" /\ prog = "ping" /\ Len(fileLog) < nfiles
    /\ IF status = "ok"
       THEN /\ pc' = "reading"
            /\ UNCHANGED <<fileLog, stderr, exitCode>>
       ELSE /\ fileLog' = Append(fileLog, [status |-> status, nrec |-> 0])
            /\ Uncaught("Traceback")
    /\ results' = <<>>
    /\ seq' = 0
    /\ UNCHANGED <<prog, use_sport, nfiles, nread, input, probeVars, data, plotted, saved>>

PingReadLine(line) ==
    /\ UNCHANGED helperVars
    /\ pc = "reading" /\ prog = "ping" /\ nread < MaxPingLines
    /\ LET st == PingStep([results |-> results, seq |-> seq], line)
       IN  /\ results' = st.results
           /\ seq' = st.seq
    /\ input' = Append(input, [file |-> CurFile, line |-> line])
    /\ nread' = nread + 1
    /\ UNCHANGED <<prog, use_sport, nfiles, pc, fileLog, probeVars, data, plotted,
                   stderr, saved, exitCode>>

\* parse_ping returns; lines 74-86 of main.
PingEndFile ==
    /\ UNCHANGED helperVars
    /\ pc = "reading" /\ prog = "ping"
    /\ fileLog' = Append(fileLog, [status |-> "ok", nrec |-> Len(results)])
    /\ IF results = <<>>
       THEN /\ stderr' = Append(stderr, [msg |-> "no ping data", file |-> CurFile])
            /\ exitCode' = 1
            /\ pc' = "done"
            /\ UNCHANGED plotted
       ELSE /\ plotted' = Append(plotted, CurFile)
            /\ pc' = "files"
            /\ UNCHANGED <<stderr, exitCode>>
    /\ UNCHANGED <<prog, use_sport, nfiles, nread, input, probeVars, pingVars, data, saved>>

\* ---- plot_queue ----

\* read_list opens the file outside any try.
QueueOpen(status) ==
    /\ UNCHANGED helperVars
    /\ pc = "files" /\ prog = "queue" /\ Len(fileLog) < nfiles
    /\ IF status = "ok"
       THEN /\ pc' = "reading"
            /\ UNCHANGED <<fileLog, stderr, exitCode>>
       ELSE /\ fileLog' = Append(fileLog, [status |-> status, nrec |-> 0])
            /\ Uncaught("Traceback")
    /\ data' = <<>>
    /\ UNCHANGED <<prog, use_sport, nfiles, nread, input, probeVars, pingVars, plotted, saved>>

QueueReadLine(line) ==
    /\ UNCHANGED helperVars
    /\ pc = "reading" /\ prog = "queue" /\ nread < MaxLines
    /\ data' = Append(data, ReadListLine(line, ","))
    /\ input' = Append(input, [file |-> CurFile, line |-> line])
    /\ nread' = nread + 1
    /\ UNCHANGED <<prog, use_sport, nfiles, pc, fileLog, probeVars, pingVars,
                   plotted, stderr, saved, exitCode>>

\* read_list returns; lines 78-93 of main.
QueueEndFile ==
    /\ UNCHANGED helperVars
    /\ pc = "reading" /\ prog = "queue"
    /\ fileLog' = Append(fileLog, [status |-> "ok", nrec |-> Len(data)])
    /\ IF data = <<>>
       THEN /\ stderr' = Append(stderr, [msg |-> "no queue length data", file |-> CurFile])
            /\ exitCode' = 1
            /\ pc' = "done"
            /\ UNCHANGED plotted
       ELSE IF QueueConvert(data) # "ok"
       THEN /\ Uncaught("Traceback")
            /\ UNCHANGED plotted
       ELSE /\ plotted' = Append(plotted, CurFile)
            /\ pc' = "files"
            /\ UNCHANGED <<stderr, exitCode>>
    /\ UNCHANGED <<prog, use_sport, nfiles, nread, input, probeVars, pingVars, data, saved>>

\* ---- the end of main of plot_ping and plot_queue ----

\* The loop over the files is over: the axes are labelled, savefig or show,
\* and main returns with exit status 0.
LoopDone ==
    /\ UNCHANGED helperVars
    /\ pc = "files" /\ prog \in {"ping", "queue"} /\ Len(fileLog) = nfiles
    /\ saved' = TRUE
    /\ exitCode' = 0
    /\ pc' = "done"
    /\ UNCHANGED <<prog, use_sport, nfiles, fileLog, nread, input, probeVars, pingVars,
                   data, plotted, stderr>>

Next ==
    \/ \E status \in FileStatus : ProbeOpen(status)
    \/ \E line \in ProbeLines : ProbeReadLine(line)
    \/ ProbeEndFile
    \/ ProbeAlign
    \/ ProbeMain
    \/ \E status \in FileStatus : PingOpen(status)
    \/ \E line \in PingLines : PingReadLine(line)
    \/ PingEndFile
    \/ \E status \in FileStatus : QueueOpen(status)
    \/ \E line \in QueueLines : QueueReadLine(line)
    \/ QueueEndFile
    \/ LoopDone

Spec == Init /\ [][Next]_vars

\* calculate_total_cwnd on its own: main of plot_tcpprobe from the point
\* where plot_cwnd_timeseries has returned, for every time-ordered list of
\* events over the ports and values of the lines above.
EventSet ==
    [timestamp : 0..MaxTs, sport : {DefaultPort, OtherPort},
     cwnd : {0, MSS, 2 * MSS}, tfrom : {NoLine}, vfrom : {NoLine}]

TimeOrdered(events) ==
    \A i \in 1..(Len(events) - 1) : events[i].timestamp <= events[i + 1].timestamp

InitTotal ==
    /\ prog = "tcpprobe"
    /\ use_sport = FALSE
    /\ nfiles = 1
    /\ pc = "main"
    /\ fileLog = <<>>
    /\ nread = 0
    /\ input = <<>>
    /\ times = EmptyDict
    /\ cwnds = EmptyDict
    /\ all_timestamps = <<>>
    /\ collected_data = <<>>
    /\ global_start = 0
    /\ all_events \in {e \in UNION {[1..n -> EventSet] : n \in 0..MaxEvents} :
                          TimeOrdered(e)}
    /\ totals = EmptyTotals
    /\ results = <<>>
    /\ seq = 0
    /\ data = <<>>
    /\ plotted = <<>>
    /\ stderr = <<>>
    /\ saved = FALSE
    /\ exitCode = 0
    /\ NoCall

NextTotal == ProbeMain

SpecTotal == InitTotal /\ [][NextTotal]_vars

---------------------------------------------------------------------------
\* The functions of helper.py no script calls, each called on its own.

\* No script runs.
NoScript ==
    /\ prog = "tcpprobe"
    /\ use_sport = FALSE
    /\ nfiles = 1
    /\ pc = "done"
    /\ fileLog = <<>>
    /\ nread = 0
    /\ input = <<>>
    /\ times = EmptyDict
    /\ cwnds = EmptyDict
    /\ all_timestamps = <<>>
    /\ collected_data = <<>>
    /\ global_start = 0
    /\ all_events = <<>>
    /\ totals = EmptyTotals
    /\ results = <<>>
    /\ seq = 0
    /\ data = <<>>
    /\ plotted = <<>>
    /\ stderr = <<>>
    /\ saved = FALSE
    /\ exitCode = 0

Range(n) == [i \in 1..n |-> i]

\* 1, 1, 2, 2, 3, ...: a list with repeated values.
Pairs(n) == [i \in 1..n |-> (i + 1) \div 2]

Rotate(s, k) == SubSeq(s, k + 1, Len(s)) \o SubSeq(s, 1, k)

\* The lists given to pc95 and pc99: [], and for every length up to MaxN
\* the lists 1..n and 1, 1, 2, 2, ... in every rotation.
PcLists ==
    {<<>>} \cup UNION {{Rotate(Range(n), k % n), Rotate(Pairs(n), k % n)} :
                          n \in 1..MaxN, k \in 0..(MaxN - 1)}

CvValues == (0 - 1)..2

\* The lists given to coeff_variation.
CvLists == UNION {[1..n -> CvValues] : n \in 0..MaxList}

HelperCalls == {"parse_cpu_usage", "pc95", "pc99", "coeff_variation"}

InitHelper ==
    /\ NoScript
    /\ call \in HelperCalls
    /\ lines \in (IF call = "parse_cpu_usage"
                  THEN UNION {[1..n -> CpuLines] : n \in 0..MaxCpuLines}
                  ELSE {<<>>})
    /\ nprocessors \in (IF call = "parse_cpu_usage" THEN 1..MaxCores ELSE {1})
    /\ lst \in (IF call \in {"pc95", "pc99"} THEN PcLists
                ELSE IF call = "coeff_variation" THEN CvLists
                ELSE {<<>>})
    /\ ret = <<>>
    /\ returned = Running

\* parse_cpu_usage, lines 143-161: the next group of the loop.
CpuGroup ==
    /\ call = "parse_cpu_usage" /\ returned = Running
    /\ HasGroup(nprocessors, lines, Len(ret) + 1)
    /\ LET r == CpuSample(Grouper(nprocessors, lines, Len(ret) + 1), nprocessors)
       IN  IF r.raised
           THEN /\ returned' = [kind |-> "IndexError"]
                /\ UNCHANGED ret
           ELSE /\ ret' = Append(ret, r.sample)
                /\ UNCHANGED returned
    /\ UNCHANGED <<scriptVars, call, lst, lines, nprocessors>>

\* parse_cpu_usage, line 162: no group is left.
CpuReturn ==
    /\ call = "parse_cpu_usage" /\ returned = Running
    /\ ~HasGroup(nprocessors, lines, Len(ret) + 1)
    /\ returned' = [kind |-> "value"]
    /\ UNCHANGED <<scriptVars, call, lst, lines, nprocessors, ret>>

Pc95 ==
    /\ call = "pc95" /\ returned = Running
    /\ returned' = pc95(lst)
    /\ UNCHANGED <<scriptVars, call, lst, lines, nprocessors, ret>>

Pc99 ==
    /\ call = "pc99" /\ returned = Running
    /\ returned' = pc99(lst)
    /\ UNCHANGED <<scriptVars, call, lst, lines, nprocessors, ret>>

CoeffVariation ==
    /\ call = "coeff_variation" /\ returned = Running
    /\ returned' = coeff_variation(lst)
    /\ UNCHANGED <<scriptVars, call, lst, lines, nprocessors, ret>>

NextHelper ==
    \/ CpuGroup
    \/ CpuReturn
    \/ Pc95
    \/ Pc99
    \/ CoeffVariation

SpecHelper == InitHelper /\ [][NextHelper]_vars

---------------------------------------------------------------------------
\* The claims.

Probe == prog = "tcpprobe"

Aligned == Probe /\ pc \in {"main", "done"}

Totalled == Probe /\ pc = "done" /\ all_events # <<>>

\* The value of the most recent of the events 1..i with key k.
LatestOf(events, i, k) ==
    LET S == {j \in 1..i : events[j].sport = k}
    IN  events[CHOOSE j \in S : \A m \in S : m <= j].cwnd

\* The sum, over the keys of the events 1..i, of the key's latest value.
SumLatest(events, i) ==
    LET keys == SortedKeys({events[j].sport : j \in 1..i})
    IN  SumSeq([n \in 1..Len(keys) |-> LatestOf(events, i, keys[n])])

\* C1: calculate_total_cwnd emits one point per event, with the event's
\* timestamp, and the total after the i-th event is the sum over the keys
\* seen in events 1..i of the value of the most recent event of that key.
C1_TotalIsSumOfLatest ==
    (Totalled /\ TimeOrdered(all_events)) =>
        /\ Len(totals.timestamps) = Len(all_events)
        /\ Len(totals.total_values) = Len(all_events)
        /\ \A i \in 1..Len(all_events) :
              /\ totals.timestamps[i] = all_events[i].timestamp
              /\ totals.total_values[i] = SumLatest(all_events, i)

\* C1, its case: a key is updated after another key came in between, as in
\* (0,k1,10) (1,k2,5) (2,k1,20).
C1_Witness ==
    /\ Totalled
    /\ Len(all_events) = 3
    /\ all_events[1].sport = all_events[3].sport
    /\ all_events[1].sport # all_events[2].sport
    /\ all_events[1].cwnd # all_events[3].cwnd
    /\ all_events[1].cwnd > 0 /\ all_events[2].cwnd > 0
    /\ all_events[1].timestamp < all_events[2].timestamp
    /\ all_events[2].timestamp < all_events[3].timestamp

\* The line an entry or an event came from.
LineOf(from) == input[from.ln].line

\* The raw timestamp of an event: that of the line its timestamp came from.
RawTs(e) == LineOf(e.tfrom).ts

\* C2: the global start is the least raw timestamp over the events of all
\* files, and every event's normalized timestamp is its raw timestamp minus
\* the global start.
C2_GlobalStart ==
    (Aligned /\ all_events # <<>>) =>
        /\ \E i \in 1..Len(all_events) : global_start = RawTs(all_events[i])
        /\ \A i \in 1..Len(all_events) :
              /\ global_start <= RawTs(all_events[i])
              /\ all_events[i].timestamp = RawTs(all_events[i]) - global_start

Count(s, x) == Cardinality({i \in 1..Len(s) : s[i] = x})

SameEvents(a, b) ==
    /\ Len(a) = Len(b)
    /\ \A i \in 1..Len(a) : Count(a, a[i]) = Count(b, a[i])

\* C3: when there are events, the merged series has non-decreasing
\* timestamps, its least timestamp is 0, and it holds exactly the events
\* collected from the files.
C3_MergedSeries ==
    (Aligned /\ all_events # <<>>) =>
        /\ \A i \in 1..(Len(all_events) - 1) :
              all_events[i].timestamp <= all_events[i + 1].timestamp
        /\ all_events[1].timestamp = 0
        /\ SameEvents(all_events, BuildEvents(collected_data, global_start))

\* An event of a line of the usual shape (host:port, every field there and
\* numeric) whose timestamp and value come from that one line.
PlainEvent(e) ==
    /\ e.tfrom = e.vfrom
    /\ LineOf(e.tfrom) \in PlainLines
    /\ LineOf(e.tfrom).cwnd.present /\ LineOf(e.tfrom).cwnd.num

\* The place of an event in the input: (file, line number).
InputBefore(a, b) ==
    \/ a.file < b.file
    \/ a.file = b.file /\ a.ln < b.ln

\* C4 as stated: events of equal normalized timestamp appear in input
\* order, by file and then by line within the file, whatever their ports
\* (stated of the events of well-formed lines).
C4_TiesInInputOrder ==
    Aligned =>
        \A i, j \in 1..Len(all_events) :
            (/\ i < j
             /\ all_events[i].timestamp = all_events[j].timestamp
             /\ PlainEvent(all_events[i]) /\ PlainEvent(all_events[j]))
                => InputBefore(all_events[i].tfrom, all_events[j].tfrom)

\* C4 as amended: events of equal normalized timestamp appear by file, then
\* by ascending source port within the file, then by line within the port.
C4_TiesByFilePortLine ==
    Aligned =>
        \A i, j \in 1..Len(all_events) :
            (i < j /\ all_events[i].timestamp = all_events[j].timestamp) =>
                LET a == all_events[i]
                    b == all_events[j]
                IN  \/ a.tfrom.file < b.tfrom.file
                    \/ /\ a.tfrom.file = b.tfrom.file
                       /\ a.sport < b.sport
                    \/ /\ a.tfrom.file = b.tfrom.file
                       /\ a.sport = b.sport
                       /\ a.tfrom.ln < b.tfrom.ln
                       /\ a.vfrom.ln < b.vfrom.ln

\* C4, its case: two events of one file tie, and the one whose line comes
\* later in the file is first in the merged series, whatever the values.
C4_Witness ==
    /\ Aligned
    /\ \E i, j \in 1..Len(all_events) :
          /\ i < j
          /\ all_events[i].timestamp = all_events[j].timestamp
          /\ all_events[i].tfrom.file = all_events[j].tfrom.file
          /\ all_events[i].tfrom.ln > all_events[j].tfrom.ln
          /\ all_events[i].cwnd > all_events[j].cwnd
          /\ PlainEvent(all_events[i]) /\ PlainEvent(all_events[j])

\* The lines a timestamp, a value, is stored for in the file being read.
StoredTimes ==
    UNION {{times[k][i].from : i \in 1..Len(times[k])} : k \in DOMAIN times}

StoredValues ==
    UNION {{cwnds[k][i].from : i \in 1..Len(cwnds[k])} : k \in DOMAIN cwnds}

Reading == Probe /\ pc = "reading"

\* A line with the marker, the fields src, dest and snd_cwnd, and a
\* timestamp, ports (the final components) and snd_cwnd that convert.
WellFormed(l) ==
    /\ l.marker /\ l.hdr >= 4 /\ l.tsOk
    /\ l.src.present /\ Len(l.src.parts) >= 2 /\ Last(l.src.parts).num
    /\ l.dest.present /\ Len(l.dest.parts) >= 2 /\ Last(l.dest.parts).num
    /\ l.cwnd.present /\ l.cwnd.num

\* C5: a line without the marker, without one of src, dest, snd_cwnd, or
\* with a timestamp, port or snd_cwnd that does not convert adds no record,
\* no timestamp and no value: whatever is stored comes from a line that is
\* none of these.
C5_SkipAddsNothing ==
    Reading =>
        /\ \A f \in StoredTimes : WellFormed(LineOf(f))
        /\ \A f \in StoredValues : WellFormed(LineOf(f))

\* C6: for a valid line, the source and destination ports parsed are the
\* final colon-delimited components of src and dest, so that its record is
\* stored under the final component of src, and the value is
\* snd_cwnd * 1480 / 1024 (the stored numerator is snd_cwnd * MSS).
C6_PortsAndValue ==
    Reading =>
        \A k \in DOMAIN cwnds : \A i \in 1..Len(cwnds[k]) :
            LET l == LineOf(cwnds[k][i].from)
                r == ParseTcpProbeLine(l, DefaultPort, use_sport)
            IN  WellFormed(l) =>
                    /\ k = Last(l.src.parts).val
                    /\ r.sport = Last(l.src.parts).val
                    /\ r.dport = Last(l.dest.parts).val
                    /\ cwnds[k][i].v = l.cwnd.val * MSS

NoRecords == \A i \in 1..Len(fileLog) : fileLog[i].nrec = 0

AllFilesSeen == Len(fileLog) = nfiles

\* C7: a run of plot_tcpprobe or plot_ping in which no supplied file yields
\* a valid event reports it on the error stream and ends with a non-zero
\* exit status, without saving or showing a plot.
C7_NoDataIsFatal ==
    (pc = "done" /\ prog \in {"tcpprobe", "ping"} /\ AllFilesSeen /\ NoRecords) =>
        /\ exitCode # 0
        /\ stderr # <<>>
        /\ ~saved

BadFile(i) == fileLog[i].status # "ok" \/ fileLog[i].nrec = 0

Diagnosed(i) == \E k \in 1..Len(stderr) : stderr[k].file = i

PingParsed(l) ==
    /\ l.bytesFrom
    /\ FirstTime(l.tokens) # 0
    /\ l.tokens[FirstTime(l.tokens)].ok

LinesOfFile(f) == {i \in 1..Len(input) : input[i].file = f}

\* C9: while parse_ping reads a file, the samples carry the sequence numbers
\* 0, 1, ..., k-1 in order, k the number of lines parsed successfully so
\* far; the other lines consume no number.
C9_SequenceNumbers ==
    (prog = "ping" /\ pc = "reading") =>
        /\ Len(results) =
              Cardinality({i \in LinesOfFile(CurFile) : PingParsed(input[i].line)})
        /\ \A i \in 1..Len(results) : results[i][1] = i - 1

\* C9, its case: two samples with a line that fails to parse between them.
C9_Witness ==
    /\ prog = "ping" /\ pc = "reading"
    /\ Len(results) = 2
    /\ Cardinality(LinesOfFile(CurFile)) = 3
    /\ ~PingParsed(input[2].line)
    /\ input[2].line.bytesFrom

\* C10: when no file yields an event, plot_cwnd_timeseries returns the
\* empty series without raising, and calculate_total_cwnd of the empty
\* series is the pair of empty sequences.
C10_NoDataIsEmpty ==
    (Probe /\ pc \in {"main", "done"} /\ NoRecords) =>
        /\ all_events = <<>>
        /\ \A k \in 1..Len(stderr) : stderr[k].msg # "Traceback"
        /\ CalculateTotalCwnd(all_events) = EmptyTotals

\* C10, its case: lines were read, none of them gave an event.
C10_Witness ==
    /\ Probe /\ pc = "main" /\ NoRecords
    /\ nread >= 2
    /\ all_events = <<>>

---------------------------------------------------------------------------
\* The merged series handed back to plot_cwnd_timeseries as its input: one
\* group (sport, [timestamp], [value]) per event, in merged order, and the
\* timestamps of all of them.
Regroup(events) ==
    [i \in 1..Len(events) |->
        [sport |-> events[i].sport,
         timestamps |-> <<[t |-> events[i].timestamp, from |-> events[i].tfrom]>>,
         cwnd_values |-> <<[v |-> events[i].cwnd, from |-> events[i].vfrom]>>]]

RegroupTimestamps(events) ==
    [i \in 1..Len(events) |-> [t |-> events[i].timestamp, from |-> events[i].tfrom]]

\* The groups collected from the files with their timestamps normalized.
Normalized(entries, start) ==
    [i \in 1..Len(entries) |-> [t |-> entries[i].t - start, from |-> entries[i].from]]

NormalizedGroups(collected, start) ==
    [g \in 1..Len(collected) |->
        [sport |-> collected[g].sport,
         timestamps |-> Normalized(collected[g].timestamps, start),
         cwnd_values |-> collected[g].cwnd_values]]

\* C11: align is idempotent: applied to a series that is already in merged
\* order and whose smallest timestamp is already 0, it returns the same
\* timestamps, keys, values and order; and applied to the collected groups
\* once normalized it returns the merged series again.
C11_AlignIdempotent ==
    (Aligned /\ all_events # <<>>) =>
        /\ all_events[1].timestamp = 0 =>
              LET again == Align(RegroupTimestamps(all_events), Regroup(all_events))
              IN  ~again.raised /\ again.start = 0 /\ again.events = all_events
        /\ LET again == Align(Normalized(all_timestamps, global_start),
                              NormalizedGroups(collected_data, global_start))
           IN  ~again.raised /\ again.start = 0 /\ again.events = all_events

\* C11, its case: a merged series that starts at 0 and holds a tie between
\* two source ports.
C11_Witness ==
    /\ Aligned /\ Len(all_events) = 2
    /\ all_events[1].timestamp = 0 /\ all_events[2].timestamp = 0
    /\ all_events[1].sport # all_events[2].sport
    /\ all_events[1].cwnd # all_events[2].cwnd

---------------------------------------------------------------------------
\* The percentage at position p (from 1) of a line: a line without a colon,
\* a line too short and a malformed token give zero.
Pct(line, p) ==
    IF line.colon /\ p <= Len(line.usages) /\ line.usages[p].num
    THEN line.usages[p].val ELSE 0

\* The number of lines present in block g of size n, and the sum of their
\* percentages at position p.
BlockCount(g, n) == MinNat(n, Len(lines) - (g - 1) * n)

BlockSum(g, n, p) ==
    SumSeq([j \in 1..BlockCount(g, n) |-> Pct(lines[(g - 1) * n + j], p)])

CeilDiv(a, b) == (a + b - 1) \div b

CpuDone == call = "parse_cpu_usage" /\ returned # Running

---------------------------------------------------------------------------
\* floor(p * n) for p = P / 100.
FloorRank(P, n) == CHOOSE k \in 0..n : 100 * k <= P * n /\ P * n < 100 * (k + 1)

\* v stands at index k (from 0) of the ascending sort of xs: at most k
\* elements are smaller, more than k are not greater.
AtSortedIndex(xs, k, v) ==
    /\ \E i \in 1..Len(xs) : xs[i] = v
    /\ Cardinality({i \in 1..Len(xs) : xs[i] < v}) <= k
    /\ Cardinality({i \in 1..Len(xs) : xs[i] <= v}) > k

PcDone == call \in {"pc95", "pc99"} /\ returned.kind # "running"

\* C13: pc95 and pc99 of a non-empty list of length n return the element at
\* index floor(p * n), from 0, of the ascending sort; that index lies in
\* 0..n-1 and no IndexError is raised; pc95 of 1..10 is 10.
C13_NearestRank ==
    (PcDone /\ lst # <<>>) =>
        LET P == IF call = "pc95" THEN 95 ELSE 99
            idx == FloorRank(P, Len(lst))
        IN  /\ returned.kind = "value"
            /\ idx \in 0..(Len(lst) - 1)
            /\ AtSortedIndex(lst, idx, returned.value)
            /\ (call = "pc95" /\ lst = Range(10)) => returned.value = 10

\* C13, its case: pc95 of an unsorted list of 21 values returns the 20th of
\* the sort, which is not the largest.
C13_Witness ==
    /\ call = "pc95" /\ returned.kind = "value"
    /\ Len(lst) = 21 /\ lst[1] > lst[21]
    /\ \A i, j \in 1..21 : i # j => lst[i] # lst[j]
    /\ returned.value = 20

---------------------------------------------------------------------------
\* The text s without the blanks at its two ends.
Trimmed(s) ==
    LET N == {i \in 1..Len(s) : s[i] # " "}
    IN  IF N = {} THEN <<>>
        ELSE SubSeq(s, CHOOSE i \in N : \A j \in N : i <= j,
                       CHOOSE i \in N : \A j \in N : j <= i)

\* The places of the delimiter in s, and the j-th field of s: what stands
\* between the (j-1)-th and the j-th delimiter.
DelimPlaces(s, delim) == {i \in 1..Len(s) : s[i] = delim}

DelimPlace(s, delim, j) ==
    IF j = 0 THEN 0
    ELSE IF j > Cardinality(DelimPlaces(s, delim)) THEN Len(s) + 1
    ELSE CHOOSE i \in DelimPlaces(s, delim) :
             Cardinality({k \in DelimPlaces(s, delim) : k <= i}) = j

Field(s, delim, j) ==
    SubSeq(s, DelimPlace(s, delim, j - 1) + 1, DelimPlace(s, delim, j) - 1)

\* The row the claim describes for the text s: one token per field, "0" for
\* a field that is empty, "ms" or "s" once trimmed, the field itself if not.
RowOf(s, delim) ==
    [j \in 1..(Cardinality(DelimPlaces(s, delim)) + 1) |->
        IF Trimmed(Field(s, delim, j)) \in {<<>>, <<"m", "s">>, <<"s">>}
        THEN <<"0">> ELSE Field(s, delim, j)]

\* The lines read so far of the file plot_queue is reading.
QueueReading == prog = "queue" /\ pc = "reading"

CurLines == SelectSeq(input, LAMBDA e : e.file = CurFile)

\* C14 as stated: read_list returns one row per line, one token per field
\* of the line in order, "0" for a token that is empty, "ms" or "s" after
\* trimming and every other token unchanged.
C14_RowPerLine ==
    QueueReading =>
        /\ Len(data) = Len(CurLines)
        /\ \A i \in 1..Len(data) : data[i] = RowOf(CurLines[i].line, ",")

\* C14, amended: the fields are those of the line once trimmed of the white
\* space at its two ends, so the first token has lost its leading and the
\* last its trailing white space; "1.0,,ms" gives ["1.0", "0", "0"].
C14_RowPerTrimmedLine ==
    QueueReading =>
        /\ Len(data) = Len(CurLines)
        /\ \A i \in 1..Len(data) :
              /\ data[i] = RowOf(Trimmed(CurLines[i].line), ",")
              /\ CurLines[i].line = <<"1", ".", "0", ",", ",", "m", "s">>
                    => data[i] = << <<"1", ".", "0">>, <<"0">>, <<"0">> >>

\* C14, its case: a line with blanks around its tokens and the line
\* "1.0,,ms" have been read.
C14_Witness ==
    /\ QueueReading /\ Len(data) = 2
    /\ CurLines[1].line = <<" ", "1", " ", ",", " ", "2">>
    /\ data[1] = << <<"1", " ">>, <<" ", "2">> >>
    /\ data[2] = << <<"1", ".", "0">>, <<"0">>, <<"0">> >>

---------------------------------------------------------------------------
\* Equality of two fractions.
SameFraction(a, b) == a.num * b.den = b.num * a.den

\* mean(xs) and the population variance of xs, E[x^2] - E[x]^2, as
\* fractions.
Mean(xs) == [num |-> SumSeq(xs), den |-> Len(xs)]

PopVariance(xs) ==
    [num |-> Len(xs) * SumSeq([i \in 1..Len(xs) |-> xs[i] * xs[i]])
               - SumSeq(xs) * SumSeq(xs),
     den |-> Len(xs) * Len(xs)]

CvDone == call = "coeff_variation" /\ returned.kind # "running"

\* C15: coeff_variation returns 0.0 on the empty list and
\* stdevPopulation(xs) / mean(xs) otherwise, and never fails with a division
\* by zero, also for a non-empty list whose mean is 0.
C15_CoeffVariation ==
    CvDone =>
        /\ returned.kind # "ZeroDivisionError"
        /\ lst = <<>> => returned.zero
        /\ lst # <<>> =>
              /\ ~returned.zero
              /\ SameFraction(returned.variance, PopVariance(lst))
              /\ SameFraction(returned.mean, Mean(lst))

---------------------------------------------------------------------------
\* C16: after any sequence of lines, for every source port the list of
\* timestamps and the list of values are equally long and their i-th entries
\* come from the same line, so that every event pairs a timestamp with the
\* cwnd of the same line.
C16_Pairing ==
    Probe =>
        /\ DOMAIN times = DOMAIN cwnds
        /\ \A k \in DOMAIN times \cap DOMAIN cwnds :
              /\ Len(times[k]) = Len(cwnds[k])
              /\ \A i \in 1..MinNat(Len(times[k]), Len(cwnds[k])) :
                    times[k][i].from = cwnds[k][i].from
        /\ \A i \in 1..Len(all_events) : all_events[i].tfrom = all_events[i].vfrom

====
